---------------------------- MODULE Spec2Model ----------------------------
(***************************************************************************)
(* A model of the ID3v2.3 tag codec of src/id3v23tag.py.                   *)
(*                                                                         *)
(* Bytes objects are sequences of integers 0..255 (Python index i is TLA+  *)
(* index i+1).  Python str values are sequences of code points.  A call    *)
(* that can raise returns a record [err, val]: err = "" on a normal return *)
(* and the exception's class name otherwise.                               *)
(***************************************************************************)
EXTENDS Integers, Sequences, FiniteSets, TLC

(***************************************************************************)
(* Python built-ins used by the codec                                      *)
(***************************************************************************)

Min(a, b) == IF a < b THEN a ELSE b

Max(a, b) == IF a > b THEN a ELSE b

RECURSIVE Pow(_, _)
Pow(b, e) == IF e = 0 THEN 1 ELSE b * Pow(b, e - 1)

\* A normal return of value v, and a raise of exception class e.
Ok(v) == [err |-> "", val |-> v]

Raise(e) == [err |-> e, val |-> <<>>]

\* Sequencing: an exception raised by r propagates, otherwise K goes on with
\* the value r returned.
Then(r, K(_)) == IF r.err # "" THEN r ELSE K(r.val)

\* cp prepended to the code points of a decoded rest.
Prepend(cp, rest) == IF rest.err # "" THEN rest ELSE Ok(<<cp>> \o rest.val)

\* Python's slice index normalisation: negative indexes count from the end,
\* and both ends are clamped to 0..n.
SliceIndex(i, n) == IF i < 0 THEN Max(n + i, 0) ELSE Min(i, n)

\* s[a:b]
Slice(s, a, b) ==
    LET n  == Len(s)
        lo == SliceIndex(a, n)
        hi == SliceIndex(b, n)
    IN  IF hi <= lo THEN <<>> ELSE SubSeq(s, lo + 1, hi)

\* s[a:]
SliceFrom(s, a) == Slice(s, a, Len(s))

\* bytes.find(pat): the lowest index where pat occurs, or -1.
Find(s, pat) ==
    LET hits == { i \in 0..(Len(s) - Len(pat)) :
                    SubSeq(s, i + 1, i + Len(pat)) = pat }
    IN  IF hits = {} THEN -1 ELSE CHOOSE i \in hits : \A j \in hits : i <= j

\* b'\x00' * n
Zeros(n) == [i \in 1..n |-> 0]

\* int.to_bytes(4, byteorder='big')
ToBytes4(n) ==
    << (n \div 16777216) % 256, (n \div 65536) % 256, (n \div 256) % 256, n % 256 >>

(***************************************************************************)
(* Text codecs: iso8859_1, utf_16 and the default utf-8                    *)
(***************************************************************************)

\* bytes.decode('iso8859_1'): byte b is code point b; never raises.
Latin1Decode(bs) == [i \in 1..Len(bs) |-> bs[i]]

\* str.encode('iso8859_1'): raises for a code point above 255.
Latin1Encode(s) ==
    IF \E i \in 1..Len(s) : s[i] > 255
    THEN Raise("UnicodeEncodeError")
    ELSE Ok([i \in 1..Len(s) |-> s[i]])

IsHighSurrogate(u) == u >= 55296 /\ u <= 56319

IsLowSurrogate(u) == u >= 56320 /\ u <= 57343

\* The code units of a utf-16 byte string in the given byte order.
Utf16Units(bs, little) ==
    [k \in 1..(Len(bs) \div 2) |->
        IF little THEN bs[2 * k - 1] + 256 * bs[2 * k]
                  ELSE 256 * bs[2 * k - 1] + bs[2 * k]]

\* Code units to code points, pairing surrogates; a lone surrogate raises.
RECURSIVE Utf16Points(_)
Utf16Points(us) ==
    IF us = <<>> THEN Ok(<<>>)
    ELSE IF IsLowSurrogate(us[1]) THEN Raise("UnicodeDecodeError")
    ELSE IF IsHighSurrogate(us[1])
    THEN IF Len(us) >= 2 /\ IsLowSurrogate(us[2])
         THEN Prepend(65536 + (us[1] - 55296) * 1024 + (us[2] - 56320),
                      Utf16Points(Tail(Tail(us))))
         ELSE Raise("UnicodeDecodeError")
    ELSE Prepend(us[1], Utf16Points(Tail(us)))

\* bytes.decode('utf_16'): a leading FF FE or FE FF is a byte-order mark and is
\* consumed; without one the bytes are read in native (little-endian) order.
\* An odd number of bytes raises (truncated data).
Utf16Decode(bs) ==
    LET le   == Len(bs) >= 2 /\ bs[1] = 255 /\ bs[2] = 254
        be   == Len(bs) >= 2 /\ bs[1] = 254 /\ bs[2] = 255
        body == IF le \/ be THEN SliceFrom(bs, 2) ELSE bs
    IN  IF Len(body) % 2 # 0 THEN Raise("UnicodeDecodeError")
        ELSE Utf16Points(Utf16Units(body, ~be))

\* One code point as utf-16 little-endian bytes.
Utf16PointBytes(cp) ==
    IF cp < 65536 THEN << cp % 256, cp \div 256 >>
    ELSE LET v  == cp - 65536
             hi == 55296 + (v \div 1024)
             lo == 56320 + (v % 1024)
         IN  << hi % 256, hi \div 256, lo % 256, lo \div 256 >>

RECURSIVE Utf16Body(_)
Utf16Body(s) == IF s = <<>> THEN <<>> ELSE Utf16PointBytes(Head(s)) \o Utf16Body(Tail(s))

\* str.encode('utf_16'): byte-order mark FF FE, then little-endian code units.
\* A surrogate code point raises.
Utf16Encode(s) ==
    IF \E i \in 1..Len(s) : IsHighSurrogate(s[i]) \/ IsLowSurrogate(s[i])
    THEN Raise("UnicodeEncodeError")
    ELSE Ok(<<255, 254>> \o Utf16Body(s))

IsCont(b) == b >= 128 /\ b <= 191

\* bytes.decode(): utf-8, strict.
RECURSIVE Utf8Decode(_)
Utf8Decode(bs) ==
    IF bs = <<>> THEN Ok(<<>>)
    ELSE IF bs[1] < 128 THEN Prepend(bs[1], Utf8Decode(Tail(bs)))
    ELSE IF bs[1] >= 194 /\ bs[1] <= 223 /\ Len(bs) >= 2 /\ IsCont(bs[2])
    THEN Prepend((bs[1] - 192) * 64 + (bs[2] - 128), Utf8Decode(SliceFrom(bs, 2)))
    ELSE IF bs[1] >= 224 /\ bs[1] <= 239 /\ Len(bs) >= 3
            /\ IsCont(bs[2]) /\ IsCont(bs[3])
            /\ (bs[1] = 224 => bs[2] >= 160) /\ (bs[1] = 237 => bs[2] <= 159)
    THEN Prepend((bs[1] - 224) * 4096 + (bs[2] - 128) * 64 + (bs[3] - 128),
                 Utf8Decode(SliceFrom(bs, 3)))
    ELSE IF bs[1] >= 240 /\ bs[1] <= 244 /\ Len(bs) >= 4
            /\ IsCont(bs[2]) /\ IsCont(bs[3]) /\ IsCont(bs[4])
            /\ (bs[1] = 240 => bs[2] >= 144) /\ (bs[1] = 244 => bs[2] <= 143)
    THEN Prepend((bs[1] - 240) * 262144 + (bs[2] - 128) * 4096
                    + (bs[3] - 128) * 64 + (bs[4] - 128),
                 Utf8Decode(SliceFrom(bs, 4)))
    ELSE Raise("UnicodeDecodeError")

(***************************************************************************)
(* Synchsafe tag size (ID3V2Tag.decode_tagsize / encode_tagsize)           *)
(***************************************************************************)

\* decode_tagsize: size += (sizebytes[i] * 256**(3-i)) >> (3-i) for i in 0..3.
\* 2**(3-i) divides 256**(3-i), so the shifted term is sizebytes[i] * 2**(7*(3-i))
\* exactly; it is computed in that form to stay inside TLC's 32-bit integers.
\* No byte is masked.  Indexing past the end of sizebytes raises IndexError.
decode_tagsize(sizebytes) ==
    IF Len(sizebytes) < 4 THEN Raise("IndexError")
    ELSE Ok(sizebytes[1] * Pow(2, 8 * 3 - 3) + sizebytes[2] * Pow(2, 8 * 2 - 2)
            + sizebytes[3] * Pow(2, 8 * 1 - 1) + sizebytes[4])

\* A variant of encode_tagsize that takes 8-bit groups instead of 7-bit ones.
EncodeTagsizeShift8(size) ==
    [i \in 1..4 |-> (size \div Pow(2, 8 * (4 - i))) % 128]

\* encode_tagsize: byte i is (size >> 7*(3-i)) & 0x7F.
encode_tagsize(size) ==
    [i \in 1..4 |-> (size \div Pow(2, 7 * (4 - i))) % 128]

(***************************************************************************)
(* Frames                                                                  *)
(***************************************************************************)

\* The ASCII frame IDs and literals the code compares against.
ID3 == <<73, 68, 51>>

COMM == <<67, 79, 77, 77>>

CharT == 84

\* A frame object.  kind is the Python class; every kind carries the same
\* fields so that frames can be compared (a field a class lacks is empty).
Frame(kind, id, flags, size, data, encoding, language, content_descr) ==
    [kind |-> kind, id |-> id, flags |-> flags, size |-> size, data |-> data,
     encoding |-> encoding, language |-> language, content_descr |-> content_descr]

\* Python's None where a frame is expected.
NoFrame == Frame("None", <<>>, <<>>, 0, <<>>, "", <<>>, <<>>)

\* ID3V2Frame.__init__: size is the length of frame_body.
ID3V2Frame(frame_id, frame_body, flags) ==
    Frame("ID3V2Frame", frame_id, flags, Len(frame_body), frame_body, "", <<>>, <<>>)

\* FrameTextInfo.__init__: the base constructor runs with its default
\* frame_body b'\x20', so size is 1 whatever data is.
FrameTextInfo(frame_id, data, encoding, flags) ==
    [ID3V2Frame(frame_id, <<32>>, flags) EXCEPT
        !.kind = "FrameTextInfo", !.data = data, !.encoding = encoding]

\* FrameComments.__init__: as above, size is 1.
FrameComments(frame_id, data, language, content_descr, encoding, flags) ==
    [ID3V2Frame(frame_id, <<32>>, flags) EXCEPT
        !.kind = "FrameComments", !.data = data, !.language = language,
        !.content_descr = content_descr, !.encoding = encoding]

\* str.encode(self.encoding) for the encodings a frame can hold; 'unknown' is
\* no codec name and raises LookupError.
StrEncode(s, encoding) ==
    IF encoding = "iso8859_1" THEN Latin1Encode(s)
    ELSE IF encoding = "utf_16" THEN Utf16Encode(s)
    ELSE Raise("LookupError")

\* FrameTextInfo.set_value: stores the text, then recomputes size from the
\* encoded text (the text stays stored when encoding it raises).
\* FrameComments.set_value and ID3V2Frame.set_value are `pass`.
TextSetValue(fr, value, encoded) ==
    IF encoded.err # ""
    THEN [err |-> encoded.err, val |-> [fr EXCEPT !.data = value]]
    ELSE Ok([fr EXCEPT !.data = value, !.size = Len(encoded.val) + 1])

set_value(fr, value) ==
    IF fr.kind = "FrameTextInfo"
    THEN TextSetValue(fr, value, StrEncode(value, fr.encoding))
    ELSE Ok(fr)

\* A frame header object, and None where one is expected (is_none).
FrameHeader(frameid, framesize, flags) ==
    [is_none |-> FALSE, frameid |-> frameid, framesize |-> framesize, flags |-> flags]

NoFrameHeader == [is_none |-> TRUE, frameid |-> <<>>, framesize |-> 0, flags |-> <<>>]

\* The frame size field: four bytes, plain big-endian.
FrameSize(sb) == sb[1] * 16777216 + sb[2] * 65536 + sb[3] * 256 + sb[4]

\* ID3V2FrameHeader.read: None when fewer than 10 bytes are given.
ID3V2FrameHeader_read(bytestring) ==
    IF Len(Slice(bytestring, 0, 10)) = 10
    THEN Then(Utf8Decode(Slice(bytestring, 0, 4)),
              LAMBDA fid : Ok(FrameHeader(fid, FrameSize(Slice(bytestring, 4, 8)),
                                          Slice(bytestring, 8, 10))))
    ELSE Ok(NoFrameHeader)

\* FrameTextInfo.read from the encoding byte on: fr is the frame with its
\* header fields set.
TextBody(fr, frame_body) ==
    IF frame_body = <<>> THEN Raise("IndexError")
    ELSE IF frame_body[1] = 0
    THEN Ok([fr EXCEPT !.data = Latin1Decode(SliceFrom(frame_body, 1)),
                       !.encoding = "iso8859_1"])
    ELSE IF frame_body[1] = 1
    THEN Then(Utf16Decode(SliceFrom(frame_body, 1)),
              LAMBDA d : Ok([fr EXCEPT !.data = d, !.encoding = "utf_16"]))
    ELSE Then(Utf8Decode(frame_body),
              LAMBDA d : Ok([fr EXCEPT !.data = d, !.encoding = "unknown"]))

\* FrameTextInfo.read: a header of None is dereferenced (AttributeError).
FrameTextInfo_read(bytestring) ==
    Then(ID3V2FrameHeader_read(bytestring),
         LAMBDA hd :
           IF hd.is_none THEN Raise("AttributeError")
           ELSE TextBody([FrameTextInfo(hd.frameid, <<>>, "utf_16", hd.flags)
                            EXCEPT !.size = hd.framesize],
                         Slice(bytestring, 10, 10 + hd.framesize)))

\* FrameComments.read of a Latin-1 body; text_len is frame_body.find(b'\x00') - 4,
\* the search starting at the body's first byte (the encoding byte).
CommentLatin1(fr, frame_body, text_len) ==
    Ok([fr EXCEPT
          !.content_descr = Latin1Decode(Slice(frame_body, 4, text_len + 4)),
          !.data = Latin1Decode(SliceFrom(frame_body, text_len + 5)),
          !.encoding = "iso8859_1"])

\* FrameComments.read of a 16-bit body; text_len is
\* frame_body.find(b'\x00\x00') - 4, the search starting at the first byte.
CommentUtf16(fr, frame_body, text_len) ==
    Then(Utf16Decode(Slice(frame_body, 4, text_len + 4)),
         LAMBDA cd :
           Then(Utf16Decode(SliceFrom(frame_body, text_len + 6)),
                LAMBDA tx : Ok([fr EXCEPT !.content_descr = cd, !.data = tx,
                                          !.encoding = "utf_16"])))

\* FrameComments.read from the language on: the language is decoded before
\* the encoding byte is looked at.
CommentBody(fr, frame_body) ==
    Then(Utf8Decode(Slice(frame_body, 1, 4)),
         LAMBDA lang :
           IF frame_body = <<>> THEN Raise("IndexError")
           ELSE IF frame_body[1] = 0
           THEN CommentLatin1([fr EXCEPT !.language = lang], frame_body,
                              Find(frame_body, <<0>>) - 4)
           ELSE IF frame_body[1] = 1
           THEN CommentUtf16([fr EXCEPT !.language = lang], frame_body,
                             Find(frame_body, <<0, 0>>) - 4)
           ELSE Ok(NoFrame))

\* FrameComments.read
FrameComments_read(bytestring) ==
    Then(ID3V2FrameHeader_read(bytestring),
         LAMBDA hd :
           IF hd.is_none THEN Raise("AttributeError")
           ELSE CommentBody([FrameComments(hd.frameid, <<>>, <<>>, <<>>, "utf_16",
                                           hd.flags)
                               EXCEPT !.size = hd.framesize],
                            Slice(bytestring, 10, hd.framesize + 10)))

\* The dispatch of ID3V2Frame.read on the header it read.
Dispatch(bytestring, hd) ==
    IF hd.is_none THEN Raise("AttributeError")
    ELSE IF hd.frameid[1] = CharT THEN FrameTextInfo_read(bytestring)
    ELSE IF hd.frameid = COMM THEN FrameComments_read(bytestring)
    ELSE Ok(NoFrame)

\* ID3V2Frame.read, the dispatcher: a header of None is dereferenced
\* (AttributeError); an ID that neither starts with 'T' nor is 'COMM' gives None.
ID3V2Frame_read(bytestring) ==
    Then(ID3V2FrameHeader_read(bytestring), LAMBDA hd : Dispatch(bytestring, hd))

(***************************************************************************)
(* The tag                                                                 *)
(***************************************************************************)

\* ID3V2Tag.__init__.  frames is the dict, as the sequence of its values in
\* insertion order (each value's key is its id).
ID3V2Tag(frames, tagsize) ==
    [version |-> <<3, 0>>, tagsize |-> tagsize, unsynchronisation |-> FALSE,
     extended_header |-> FALSE, experimental_indicator |-> FALSE, frames |-> frames]

\* A variant of DictSet in which an existing key keeps its old value.
DictSetKeepFirst(frames, fr) ==
    IF \E i \in 1..Len(frames) : frames[i].id = fr.id
    THEN frames
    ELSE Append(frames, fr)

\* frames[fr.id] = fr on a dict: a new key is appended, an existing key keeps
\* its place and takes the new value.
DictSet(frames, fr) ==
    IF \E i \in 1..Len(frames) : frames[i].id = fr.id
    THEN [i \in 1..Len(frames) |-> IF frames[i].id = fr.id THEN fr ELSE frames[i]]
    ELSE Append(frames, fr)

\* What ID3V2Tag.read hands back: outcome is "tag" (a tag object is returned),
\* "None" (None is returned) or the class of the exception that escapes.
\* frames_read lists every frame the scan loop produced, in order, and
\* positions lists read_position at the start of every loop iteration.
ReadResult(outcome, tag, frames_read, positions) ==
    [outcome |-> outcome, tag |-> tag, frames_read |-> frames_read,
     positions |-> positions]

\* The frame-scan loop of ID3V2Tag.read: ScanFrames is the loop test,
\* ScanStep the loop body once ID3V2Frame.read(bytesframe) has returned fr.
RECURSIVE ScanFrames(_, _, _, _, _, _)
RECURSIVE ScanStep(_, _, _, _, _, _, _)
ScanFrames(tagbytes, id3_tag, read_position, frames, frames_read, positions) ==
    IF ~(read_position < id3_tag.tagsize + 10)
    THEN ReadResult("tag", [id3_tag EXCEPT !.frames = frames], frames_read, positions)
    ELSE ScanStep(tagbytes, id3_tag, read_position, frames, frames_read,
                  Append(positions, read_position),
                  ID3V2Frame_read(SliceFrom(tagbytes, read_position)))

\* A variant of ScanStep that advances by the body size alone, leaving out the
\* 10 bytes of the frame header.
ScanStepBodyOnly(tagbytes, id3_tag, read_position, frames, frames_read, positions, fr) ==
    IF fr.err # ""
    THEN ReadResult(fr.err, ID3V2Tag(<<>>, 0), frames_read, positions)
    ELSE IF fr.val.kind = "None"
    THEN ReadResult("tag", [id3_tag EXCEPT !.frames = frames], frames_read, positions)
    ELSE ScanFrames(tagbytes, id3_tag, read_position + fr.val.size,
                    DictSet(frames, fr.val), Append(frames_read, fr.val), positions)

\* The loop body: an exception escapes, no frame stops the scan, a frame is
\* stored and the offset advances by fr.size + 10.
ScanStep(tagbytes, id3_tag, read_position, frames, frames_read, positions, fr) ==
    IF fr.err # ""
    THEN ReadResult(fr.err, ID3V2Tag(<<>>, 0), frames_read, positions)
    ELSE IF fr.val.kind = "None"
    THEN ReadResult("tag", [id3_tag EXCEPT !.frames = frames], frames_read, positions)
    ELSE ScanFrames(tagbytes, id3_tag, read_position + fr.val.size + 10,
                    DictSet(frames, fr.val), Append(frames_read, fr.val), positions)

\* A variant of VersionSupported that lets every major version through.
VersionAny(major_version) == TRUE

\* The version check of ID3V2Tag.read: major_version != 3 returns None.
VersionSupported(major_version) == major_version = 3

\* ID3V2Tag.read returning without a tag: None, or an exception.
ReadFails(outcome) == ReadResult(outcome, ID3V2Tag(<<>>, 0), <<>>, <<>>)

\* ID3V2Tag.read after the header checks: the flags, then the frames of
\* bytestring[:tagsize + 10] from offset 10 on.
ReadFrames(bytestring, tag_header, tagsize) ==
    ScanFrames(Slice(bytestring, 0, tagsize + 10),
               [ID3V2Tag(<<>>, tagsize) EXCEPT
                  !.version = Slice(tag_header, 3, 5),
                  !.unsynchronisation = (tag_header[6] \div 128) % 2 = 1,
                  !.extended_header = (tag_header[6] \div 64) % 2 = 1,
                  !.experimental_indicator = (tag_header[6] \div 32) % 2 = 1],
               10, <<>>, <<>>, <<>>)

\* ID3V2Tag.read from the decoded magic on.  Indexing the header past its end
\* raises IndexError; the size is decoded after the flags are read.
ReadHeader(bytestring, tag_header, tag_id, size) ==
    IF tag_id.err # "" \/ tag_id.val # ID3 THEN ReadFails("None")
    ELSE IF Len(tag_header) < 4 THEN ReadFails("IndexError")
    ELSE IF ~VersionSupported(tag_header[4]) THEN ReadFails("None")
    ELSE IF Len(tag_header) < 6 THEN ReadFails("IndexError")
    ELSE IF size.err # "" THEN ReadFails(size.err)
    ELSE ReadFrames(bytestring, tag_header, size.val)

\* ID3V2Tag.read
ID3V2Tag_read(bytestring) ==
    ReadHeader(bytestring, Slice(bytestring, 0, 10),
               Utf8Decode(Slice(bytestring, 0, 3)),
               decode_tagsize(Slice(bytestring, 6, 10)))

\* The body FrameTextInfo.encode writes: the encoding byte and the encoded
\* text for the two known encodings, nothing for any other.
TextBodyBytes(fr) ==
    IF fr.encoding = "iso8859_1"
    THEN Then(Latin1Encode(fr.data), LAMBDA e : Ok(<<0>> \o e))
    ELSE IF fr.encoding = "utf_16"
    THEN Then(Utf16Encode(fr.data), LAMBDA e : Ok(<<1>> \o e))
    ELSE Ok(<<>>)

\* FrameTextInfo.encode: the header with the frame's current size, the body.
FrameTextInfo_encode(fr) ==
    Then(Latin1Encode(fr.id),
         LAMBDA idb :
           Then(TextBodyBytes(fr),
                LAMBDA body : Ok(idb \o ToBytes4(fr.size) \o fr.flags \o body)))

\* The body FrameComments.encode writes.
CommentBodyBytes(fr) ==
    IF fr.encoding = "iso8859_1"
    THEN Then(Latin1Encode(fr.language), LAMBDA lang :
         Then(Latin1Encode(fr.content_descr), LAMBDA cd :
         Then(Latin1Encode(fr.data), LAMBDA tx :
              Ok(<<0>> \o lang \o cd \o <<0>> \o tx))))
    ELSE IF fr.encoding = "utf_16"
    THEN Then(Latin1Encode(fr.language), LAMBDA lang :
         Then(Utf16Encode(fr.content_descr), LAMBDA cd :
         Then(Utf16Encode(fr.data), LAMBDA tx :
              Ok(<<1>> \o lang \o cd \o <<0, 0>> \o tx))))
    ELSE Ok(<<>>)

\* FrameComments.encode
FrameComments_encode(fr) ==
    Then(Latin1Encode(fr.id),
         LAMBDA idb :
           Then(CommentBodyBytes(fr),
                LAMBDA body : Ok(idb \o ToBytes4(fr.size) \o fr.flags \o body)))

\* fr.encode() as ID3V2Tag.encode uses it.  ID3V2Frame.encode is the abstract
\* method whose body is `pass`: it returns None, and appending None to the
\* bytes raises TypeError.
Frame_encode(fr) ==
    IF fr.kind = "FrameTextInfo" THEN FrameTextInfo_encode(fr)
    ELSE IF fr.kind = "FrameComments" THEN FrameComments_encode(fr)
    ELSE Raise("TypeError")

\* The first loop of ID3V2Tag.encode: the frames' bytes, concatenated.
RECURSIVE EncodeFrames(_)
EncodeFrames(frames) ==
    IF frames = <<>> THEN Ok(<<>>)
    ELSE Then(Frame_encode(Head(frames)),
              LAMBDA e : Then(EncodeFrames(Tail(frames)), LAMBDA rest : Ok(e \o rest)))

\* The second loop of ID3V2Tag.encode: new_size, the sum of fr.size + 10.
RECURSIVE NewSize(_)
NewSize(frames) ==
    IF frames = <<>> THEN 0 ELSE Head(frames).size + 10 + NewSize(Tail(frames))

\* The tag header ID3V2Tag.encode writes, from the tag's fields as they are
\* when encode() is entered.
EncodeHeader(self) ==
    ID3 \o self.version
    \o << (IF self.unsynchronisation THEN 128 ELSE 0)
          + (IF self.extended_header THEN 64 ELSE 0)
          + (IF self.experimental_indicator THEN 32 ELSE 0) >>
    \o encode_tagsize(self.tagsize)

\* ID3V2Tag.encode once header and frames are written (new_raw_tag): the tag
\* grows to new_size, or the bytes are padded up to tagsize.  An exception
\* raised while the frames are written leaves the tag as it was.
EncodeFinish(self, new_raw_tag, new_size) ==
    IF new_raw_tag.err # "" THEN [err |-> new_raw_tag.err, val |-> <<>>, tag |-> self]
    ELSE IF new_size > self.tagsize
    THEN [err |-> "", val |-> new_raw_tag.val, tag |-> [self EXCEPT !.tagsize = new_size]]
    ELSE [err |-> "", val |-> new_raw_tag.val \o Zeros(self.tagsize - new_size),
          tag |-> self]

\* ID3V2Tag.encode: returns the bytes (val) and leaves the tag as in `tag`.
ID3V2Tag_encode(self) ==
    EncodeFinish(self,
                 Then(EncodeFrames(self.frames), LAMBDA b : Ok(EncodeHeader(self) \o b)),
                 NewSize(self.frames))

(***************************************************************************)
(* Bounds and inputs                                                       *)
(***************************************************************************)

\* The most frames in an input buffer or in a tag the caller builds.
MaxFrames == 2

\* The longest text handed to set_value.
MaxText == 2

\* The declared sizes a caller builds a tag with.
SmallTag == 20

LargeTag == 40

\* Zero bytes after the last frame of an input buffer: none, fewer than a
\* frame header, at least a frame header.
PadShort == 3

PadLong == 10

\* By how much an input's declared size can fall short of its frames.
DeclShort == 2

\* The largest tag, in bytes, that encode() is followed on.
MaxBytes == 128

\* The synchsafe samples lie within SizeSpread of a 7-bit group boundary.
SizeSpread == 8

TIT2 == <<84, 73, 84, 50>>

TPE1 == <<84, 80, 69, 49>>

TALB == <<84, 65, 76, 66>>

APIC == <<65, 80, 73, 67>>

Eng == <<101, 110, 103>>

NoFlags == <<0, 0>>

\* The bytes of one frame on disk: ID, plain big-endian size, flags, body.
RawFrame(id, flags, body) == id \o ToBytes4(Len(body)) \o flags \o body

\* Frames an input buffer is made of.
RawFrames ==
    { RawFrame(TIT2, NoFlags, <<0, 72, 105>>),                \* Latin-1 text
      RawFrame(TPE1, <<64, 0>>, <<0, 97>>),                   \* Latin-1, flags set
      RawFrame(TPE1, NoFlags, <<0, 98, 99>>),                 \* the same ID again
      RawFrame(TALB, NoFlags, <<1, 255, 254, 72, 0>>),        \* 16-bit text with BOM
      RawFrame(TALB, NoFlags, <<2, 97>>),                     \* unknown encoding byte
      RawFrame(TIT2, NoFlags, <<>>),                          \* empty body
      RawFrame(COMM, NoFlags, <<0>> \o Eng \o <<100, 0, 116>>),   \* Latin-1 comment
      RawFrame(COMM, NoFlags,
               <<1>> \o Eng \o <<255, 254, 1, 1, 0, 0, 255, 254, 116, 0>>),
      RawFrame(COMM, NoFlags,
               <<1>> \o Eng \o <<255, 254, 100, 0, 0, 0, 255, 254, 116, 0>>),
      RawFrame(COMM, NoFlags, <<1>> \o Eng \o <<255, 254, 1, 1>>),  \* no terminator
      RawFrame(COMM, NoFlags, <<0>> \o Eng \o <<116>>),     \* Latin-1, no terminator
      RawFrame(COMM, NoFlags, <<2>> \o Eng \o <<100, 0, 116>>),     \* unknown encoding
      RawFrame(APIC, NoFlags, <<1, 2>>) }                     \* neither T... nor COMM

RECURSIVE Concat(_)
Concat(ss) == IF ss = <<>> THEN <<>> ELSE Head(ss) \o Concat(Tail(ss))

\* All sequences of at most n elements of S.
SeqsUpTo(S, n) == UNION { [1..k -> S] : k \in 0..n }

\* A 10-byte tag header.
TagHeader(magic, major, flags, size) ==
    magic \o <<major, 0, flags>> \o encode_tagsize(size)

\* How an input buffer ends: <<pad, short>> is pad zero bytes after the last
\* frame and a declared size that falls short bytes short of frames and padding.
Tails == { <<0, 0>>, <<PadShort, 0>>, <<PadLong, 0>>, <<0, DeclShort>> }

\* Well-headed buffers: a tag header, frames, padding.
GoodBuffers ==
    { TagHeader(ID3, 3, 0, Len(Concat(fs)) + t[1] - Min(t[2], Len(Concat(fs))))
        \o Concat(fs) \o Zeros(t[1]) :
        fs \in SeqsUpTo(RawFrames, MaxFrames), t \in Tails }

\* A buffer with one readable frame behind each kind of header.
OneFrame == RawFrame(TIT2, NoFlags, <<0, 72, 105>>)

HeaderCases ==
    { TagHeader(m, v, fl, Len(OneFrame)) \o OneFrame :
        m \in {ID3, <<88, 89, 90>>, <<255, 254, 0>>}, v \in {2, 3, 4},
        fl \in {0, 128, 96} }

\* Buffers cut short inside the tag header.
TruncatedHeaders ==
    { Slice(TagHeader(ID3, 3, 0, Len(OneFrame)) \o OneFrame, 0, n) : n \in 0..9 }

Buffers == GoodBuffers \cup HeaderCases \cup TruncatedHeaders

\* Frames a caller constructs.
Hi == <<72, 105>>

BuiltFrames ==
    { FrameTextInfo(TIT2, Hi, "iso8859_1", NoFlags),
      FrameTextInfo(TIT2, <<>>, "iso8859_1", NoFlags),
      FrameTextInfo(TPE1, <<97>>, "utf_16", NoFlags),
      FrameComments(COMM, <<116>>, Eng, <<100>>, "iso8859_1", NoFlags),
      ID3V2Frame(APIC, <<1, 2>>, NoFlags) }

\* The dicts a caller can build: one frame per key.
BuiltDicts ==
    { fs \in SeqsUpTo(BuiltFrames, MaxFrames) :
        \A i, j \in 1..Len(fs) : i # j => fs[i].id # fs[j].id }

\* Texts handed to set_value: runs of 'a', and U+0101, which Latin-1 cannot
\* encode.
Texts == SeqsUpTo({97}, MaxText) \cup {<<257>>}

\* Sizes handed to the synchsafe codec: around each 7-bit group boundary, and
\* around 2**28, the first size that does not fit.
SizeSamples ==
    { x \in { Pow(2, 7 * k) + d : k \in 0..4, d \in (0 - SizeSpread)..SizeSpread } :
        x >= 0 }

(***************************************************************************)
(* State                                                                   *)
(***************************************************************************)

VARIABLES
    tag,         \* the tag object the caller holds
    origin,      \* where it came from: "none", "built", "read"
    bytestring,  \* the buffer last given to ID3V2Tag.read
    result,      \* what that read handed back (a ReadResult)
    raw,         \* the bytes the last encode() returned
    declared,    \* the tag's declared size when that encode() was entered
    op,          \* the last operation
    err,         \* the exception it raised, "" if none
    size,        \* synchsafe codec: the size given to encode_tagsize
    sizebytes,   \* its four bytes
    sizeback     \* what decode_tagsize made of them, -1 before it ran

vars == <<tag, origin, bytestring, result, raw, declared, op, err,
          size, sizebytes, sizeback>>

tagvars == <<tag, origin, bytestring, result, raw, declared, op, err>>

sizevars == <<size, sizebytes, sizeback>>

NoTag == ID3V2Tag(<<>>, 0)

NoResult == ReadResult("None", NoTag, <<>>, <<>>)

\* Nothing read, built or encoded yet.
Init ==
    /\ tag = NoTag
    /\ origin = "none"
    /\ bytestring = <<>>
    /\ result = NoResult
    /\ raw = <<>>
    /\ declared = 0
    /\ op = "init"
    /\ err = ""
    /\ size = 0
    /\ sizebytes = <<>>
    /\ sizeback = -1

\* What the caller is left with after a read handed back r.
AfterRead(r) ==
    /\ result' = r
    /\ tag' = IF r.outcome = "tag" THEN r.tag ELSE tag
    /\ origin' = IF r.outcome = "tag" THEN "read" ELSE origin
    /\ err' = IF r.outcome \in {"tag", "None"} THEN "" ELSE r.outcome

\* tag = ID3V2Tag.read(b).  read is static and reads no state, so every read of
\* an input buffer starts a session.
Read(b) ==
    /\ op = "init"
    /\ AfterRead(ID3V2Tag_read(b))
    /\ bytestring' = b
    /\ op' = "read"
    /\ UNCHANGED <<raw, declared>>
    /\ UNCHANGED sizevars

\* tag = ID3V2Tag(frames, tagsize), frames built through the constructors.
Build(frames, tagsize) ==
    /\ op = "init"
    /\ tag' = ID3V2Tag(frames, tagsize)
    /\ origin' = "built"
    /\ op' = "build"
    /\ err' = ""
    /\ UNCHANGED <<bytestring, result, raw, declared>>
    /\ UNCHANGED sizevars

\* The frame after set_value returned or raised r.
AfterSetValue(i, r) ==
    /\ tag' = [tag EXCEPT !.frames[i] = r.val]
    /\ err' = r.err

\* tag.frames[id].set_value(value), on the i-th frame of the dict: the caller
\* sets one text on the tag it has just read or built.
SetValue(i, value) ==
    /\ op \in {"read", "build"}
    /\ origin # "none"
    /\ i \in 1..Len(tag.frames)
    /\ AfterSetValue(i, set_value(tag.frames[i], value))
    /\ op' = "set_value"
    /\ UNCHANGED <<origin, bytestring, result, raw, declared>>
    /\ UNCHANGED sizevars

\* The tag and the bytes after encode() returned or raised r.
AfterEncode(r) ==
    /\ tag' = r.tag
    /\ raw' = r.val
    /\ err' = r.err

\* raw = tag.encode()
Encode ==
    /\ origin # "none"
    /\ op \in {"read", "build", "set_value", "adopt"}
    /\ tag.tagsize <= MaxBytes
    /\ NewSize(tag.frames) <= MaxBytes
    /\ AfterEncode(ID3V2Tag_encode(tag))
    /\ declared' = tag.tagsize
    /\ op' = "encode"
    /\ UNCHANGED <<origin, bytestring, result>>
    /\ UNCHANGED sizevars

\* What a read of the encoded bytes handed back.
AfterReadEncoded(r) ==
    /\ result' = r
    /\ err' = IF r.outcome \in {"tag", "None"} THEN "" ELSE r.outcome

\* ID3V2Tag.read(raw) on the bytes encode() just returned.
ReadEncoded ==
    /\ op = "encode"
    /\ err = ""
    /\ AfterReadEncoded(ID3V2Tag_read(raw))
    /\ bytestring' = raw
    /\ op' = "reread"
    /\ UNCHANGED <<tag, origin, raw, declared>>
    /\ UNCHANGED sizevars

\* The caller goes on with the tag it read back.
Adopt ==
    /\ op = "reread"
    /\ result.outcome = "tag"
    /\ tag' = result.tag
    /\ origin' = "read"
    /\ op' = "adopt"
    /\ UNCHANGED <<bytestring, result, raw, declared, err>>
    /\ UNCHANGED sizevars

Next ==
    \/ \E b \in Buffers : Read(b)
    \/ \E fs \in BuiltDicts, n \in {SmallTag, LargeTag} : Build(fs, n)
    \/ \E i \in 1..MaxFrames, v \in Texts : SetValue(i, v)
    \/ Encode
    \/ ReadEncoded
    \/ Adopt

Spec == Init /\ [][Next]_vars

(***************************************************************************)
(* The synchsafe codec on its own                                          *)
(***************************************************************************)

SizeInit ==
    /\ Init
    /\ op = "init"

PickSize(x) ==
    /\ sizebytes = <<>>
    /\ size = 0
    /\ size' = x
    /\ sizebytes' = encode_tagsize(x)
    /\ UNCHANGED sizeback
    /\ UNCHANGED tagvars

DecodeSize ==
    /\ sizebytes # <<>>
    /\ sizeback = -1
    /\ sizeback' = decode_tagsize(sizebytes).val
    /\ UNCHANGED <<size, sizebytes>>
    /\ UNCHANGED tagvars

SizeNext ==
    \/ \E x \in SizeSamples : PickSize(x)
    \/ DecodeSize

SizeSpec == SizeInit /\ [][SizeNext]_vars

(***************************************************************************)
(* Properties                                                              *)
(***************************************************************************)

\* The last operation was a read (of an input buffer or of encoded bytes).
AfterARead == op \in {"read", "reread"}

\* The declared size in the header of the buffer last read, and the bytes
\* inside the tag's extent.
HeaderSize == decode_tagsize(Slice(bytestring, 6, 10)).val

Extent == Slice(bytestring, 0, HeaderSize + 10)

\* The body bytes of the frame whose header starts at offset p of the extent
\* and declares n body bytes.
BodyAt(p, n) == Slice(Extent, p + 10, p + 10 + n)

\* Equal contents: text or data, language, description, encoding, flags.
SameContents(f, g) ==
    /\ f.data = g.data
    /\ f.language = g.language
    /\ f.content_descr = g.content_descr
    /\ f.encoding = g.encoding
    /\ f.flags = g.flags

\* r holds a tag with the frame IDs of t, each mapped to equal contents.
SameFrames(t, r) ==
    /\ r.outcome = "tag"
    /\ {t.frames[i].id : i \in 1..Len(t.frames)}
         = {r.tag.frames[j].id : j \in 1..Len(r.tag.frames)}
    /\ \A i \in 1..Len(t.frames) : \E j \in 1..Len(r.tag.frames) :
          /\ r.tag.frames[j].id = t.frames[i].id
          /\ SameContents(t.frames[i], r.tag.frames[j])

\* C1: a tag built from constructed frames, whose declared size is at least
\* the sum of frame.size + 10, reads back from its encoding with the same frame
\* IDs and equal frame contents.
C1_TagRoundTrip ==
    (op = "reread" /\ origin = "built" /\ NewSize(tag.frames) <= declared)
        => SameFrames(tag, result)

\* A frame ID of four characters A-Z / 0-9.
WellFormedID(id) ==
    Len(id) = 4 /\ \A i \in 1..4 : id[i] \in (65..90) \cup (48..57)

\* The header of the first frame of the buffer last read.
FirstHeader == ID3V2FrameHeader_read(SliceFrom(Extent, 10))

\* The buffer last read starts with a complete frame that is neither a
\* Text-Information nor a Comment frame.
FirstFrameGeneric ==
    /\ op = "read"
    /\ result.positions # <<>>
    /\ FirstHeader.err = ""
    /\ ~FirstHeader.val.is_none
    /\ WellFormedID(FirstHeader.val.frameid)
    /\ FirstHeader.val.frameid[1] # CharT
    /\ FirstHeader.val.frameid # COMM
    /\ Len(BodyAt(10, FirstHeader.val.framesize)) = FirstHeader.val.framesize

\* C2: a well-formed frame that is neither T... nor COMM is read as a Generic
\* frame holding its body bytes, is inserted into the mapping, the scan goes on
\* behind it, and encode() of a tag holding a Generic frame returns bytes that
\* contain the frame's header and body.
C2_GenericPreserved ==
    /\ FirstFrameGeneric =>
          /\ result.outcome = "tag"
          /\ \E i \in 1..Len(tag.frames) :
                /\ tag.frames[i].id = FirstHeader.val.frameid
                /\ tag.frames[i].data = BodyAt(10, FirstHeader.val.framesize)
          /\ (20 + FirstHeader.val.framesize < HeaderSize + 10
                => Len(result.positions) >= 2)
    /\ (op = "encode" /\ \E i \in 1..Len(tag.frames) : tag.frames[i].kind = "ID3V2Frame")
          => /\ err = ""
             /\ \A i \in 1..Len(tag.frames) :
                   tag.frames[i].kind = "ID3V2Frame" =>
                     \E k \in 0..Len(raw) :
                        Slice(raw, k, k + 10 + Len(tag.frames[i].data))
                          = RawFrame(tag.frames[i].id, tag.frames[i].flags,
                                     tag.frames[i].data)

\* C3: when the frames need more than the declared size, encode() sets the
\* declared size to the sum of frame.size + 10, the size field of the bytes it
\* returns decodes to that sum, and no padding follows (the size field equals
\* the returned length minus 10).
C3_GrowthHeaderConsistent ==
    (op = "encode" /\ err = "" /\ NewSize(tag.frames) > declared)
        => /\ tag.tagsize = NewSize(tag.frames)
           /\ decode_tagsize(Slice(raw, 6, 10)).val = NewSize(tag.frames)
           /\ decode_tagsize(Slice(raw, 6, 10)).val = Len(raw) - 10

\* C4: when the frames fit the declared size, encode() leaves the declared
\* size alone and appends declared - actual zero bytes after the last frame, so
\* that the returned bytes have length declared + 10.
C4_PaddingKeepsExtent ==
    (op = "encode" /\ err = "" /\ NewSize(tag.frames) <= declared)
        => /\ tag.tagsize = declared
           /\ SliceFrom(raw, Len(raw) - (declared - NewSize(tag.frames)))
                = Zeros(declared - NewSize(tag.frames))
           /\ Len(raw) = declared + 10

\* C5: for 0 <= size < 2**28, decoding the encoded size gives size back, and
\* each of the four encoded bytes has bit 7 clear.
C5_SynchsafeRoundTrip ==
    /\ sizebytes # <<>> =>
          /\ Len(sizebytes) = 4
          /\ \A i \in 1..4 : sizebytes[i] \in 0..127
    /\ (sizeback # -1 /\ size >= 0 /\ size < Pow(2, 28)) => sizeback = size

\* A size that takes more than one 7-bit group went through the codec.
C5_Witness ==
    /\ sizeback # -1
    /\ size > Pow(2, 21)
    /\ size < Pow(2, 28)
    /\ size % 128 # 0

\* C6: after a read that returns a tag, the mapping holds at most one frame per
\* frame ID, every frame it holds was read, and for every ID read it holds the
\* last frame read with that ID.
C6_OneFramePerID ==
    (AfterARead /\ result.outcome = "tag") =>
        LET fs == result.tag.frames
            rd == result.frames_read
        IN  /\ \A i, j \in 1..Len(fs) : fs[i].id = fs[j].id => i = j
            /\ \A i \in 1..Len(fs) : \E k \in 1..Len(rd) : rd[k] = fs[i]
            /\ \A k \in 1..Len(rd) :
                  (\A l \in (k + 1)..Len(rd) : rd[l].id # rd[k].id)
                      => \E i \in 1..Len(fs) : fs[i] = rd[k]

\* Two different frames with one ID were read, and a tag was returned.
C6_Witness ==
    /\ op = "read"
    /\ result.outcome = "tag"
    /\ \E k, l \in 1..Len(result.frames_read) :
          /\ k < l
          /\ result.frames_read[k].id = result.frames_read[l].id
          /\ result.frames_read[k].data # result.frames_read[l].data

\* The buffer last read has a bad magic, a major version other than 3, or
\* fewer than 10 bytes.
BadHeader ==
    \/ Slice(bytestring, 0, 3) # ID3
    \/ (Len(bytestring) >= 4 /\ bytestring[4] # 3)
    \/ Len(bytestring) < 10

\* C7: a read of a buffer with a bad magic, an unsupported major version or a
\* truncated tag header hands back no tag and parses no frame.
C7_HeaderFailureAborts ==
    (op = "read" /\ BadHeader) =>
        /\ result.outcome # "tag"
        /\ result.frames_read = <<>>
        /\ result.positions = <<>>
        /\ origin = "none"

\* A buffer with magic "ID3", major version 4 and a frame behind the header
\* was read.
C7_Witness ==
    /\ op = "read"
    /\ Len(bytestring) > 10
    /\ Slice(bytestring, 0, 3) = ID3
    /\ bytestring[4] = 4
    /\ result.outcome = "None"

\* The scan of the buffer last read came to an offset inside the extent with
\* fewer than 10 bytes left.
TruncatedFrameHeader ==
    /\ op = "read"
    /\ result.positions # <<>>
    /\ Len(Extent) - result.positions[Len(result.positions)] < 10

\* C8: when fewer than 10 bytes are left for a frame header, the scan stops
\* and read returns the tag with the frames decoded so far; no error escapes.
C8_TruncatedFrameHeaderStops ==
    TruncatedFrameHeader =>
        /\ result.outcome = "tag"
        /\ err = ""
        /\ Len(result.tag.frames) <= Len(result.frames_read)
        /\ \A i \in 1..Len(result.tag.frames) :
              \E k \in 1..Len(result.frames_read) :
                 result.frames_read[k] = result.tag.frames[i]

\* C9: no Text-Information or Comment frame whose body starts with an encoding
\* byte other than 0 and 1 is decoded and inserted into the mapping.
C9_UnknownEncodingFailsClosed ==
    (op = "read" /\ result.outcome = "tag") =>
        \A k \in 1..Len(result.frames_read) :
            (\E i \in 1..Len(result.tag.frames) :
                result.tag.frames[i] = result.frames_read[k])
              => BodyAt(result.positions[k], 1) \in {<<0>>, <<1>>}

\* The offset of the terminator that separates description from text in a
\* comment body: the first 0x00 at or after offset 4 (Latin-1), the first
\* 0x00 0x00 on a code-unit boundary at or after offset 4 (16-bit); -1 if none.
Separator(body, wide) ==
    LET hits == { i \in 4..Len(body) :
                    IF wide
                    THEN (i - 4) % 2 = 0 /\ Slice(body, i, i + 2) = <<0, 0>>
                    ELSE Slice(body, i, i + 1) = <<0>> }
    IN  IF hits = {} THEN -1 ELSE CHOOSE i \in hits : \A j \in hits : i <= j

\* C10: a comment frame read from a body with a separating terminator has as
\* content_descr the decoding of the bytes from offset 4 to the terminator and
\* as text the decoding of the bytes after it, in both encodings.
C10_CommentSplit ==
    (op = "read") =>
        \A k \in 1..Len(result.frames_read) :
            LET fr   == result.frames_read[k]
                body == BodyAt(result.positions[k], fr.size)
                wide == fr.encoding = "utf_16"
                sep  == Separator(body, wide)
            IN  (fr.kind = "FrameComments" /\ sep >= 0) =>
                    IF wide
                    THEN /\ Ok(fr.content_descr) = Utf16Decode(Slice(body, 4, sep))
                         /\ Ok(fr.data) = Utf16Decode(SliceFrom(body, sep + 2))
                    ELSE /\ fr.content_descr = Latin1Decode(Slice(body, 4, sep))
                         /\ fr.data = Latin1Decode(SliceFrom(body, sep + 1))

\* The tag the caller holds is the one a read of bytestring handed back, with
\* no frame changed since.
Unmodified ==
    /\ origin = "read"
    /\ ID3V2Tag_read(bytestring).outcome = "tag"
    /\ tag.frames = ID3V2Tag_read(bytestring).tag.frames

\* C11: a read of the bytes encode() returned for a tag that came from a read
\* and was not modified hands back a tag with the same frame IDs and equal
\* contents in every frame, in every encode-then-read cycle.
C11_EncodeIdempotent ==
    [][(ReadEncoded /\ Unmodified) => SameFrames(tag, result')]_vars

\* The bytes e that fr.encode() returned are the 10-byte header and fr.size
\* body bytes.
EmitsSize(fr, e) == e.err = "" => Len(e.val) = fr.size + 10

\* C12: every frame of the tag the caller holds, whether constructed, produced
\* by read or changed by set_value, has size equal to the length of the body
\* its encode() emits after the 10-byte header.
C12_FrameSizeConsistent ==
    origin # "none" =>
        \A i \in 1..Len(tag.frames) :
            EmitsSize(tag.frames[i], Frame_encode(tag.frames[i]))

\* The frame header at offset p of the extent of the buffer last read.
HeaderAt(p) == ID3V2FrameHeader_read(SliceFrom(Extent, p))

\* hd is the header of a Text-Information or Comment frame.
TextOrComment(hd) ==
    /\ hd.err = ""
    /\ ~hd.val.is_none
    /\ (hd.val.frameid[1] = CharT \/ hd.val.frameid = COMM)

\* The k-th iteration of the scan met a Text-Information or Comment header
\* whose body slice is empty or shorter than the header declares.
ShortBodyAt(k) ==
    /\ TextOrComment(HeaderAt(result.positions[k]))
    /\ \/ HeaderAt(result.positions[k]).val.framesize = 0
       \/ Len(BodyAt(result.positions[k], HeaderAt(result.positions[k]).val.framesize))
            < HeaderAt(result.positions[k]).val.framesize

\* The k-th iteration of the scan produced no frame.
NoFrameAt(k) == k > Len(result.frames_read)

\* C13: when the scan meets a Text-Information or Comment header whose body
\* slice is empty or shorter than declared, no frame is produced there, no
\* exception escapes, and read returns the tag scanned so far.
C13_ShortBodyNoFrame ==
    op = "read" =>
        \A k \in 1..Len(result.positions) :
            ShortBodyAt(k) => (result.outcome = "tag" /\ NoFrameAt(k))

\* The body of the frame the k-th iteration of the scan met.
BodyOf(k) ==
    BodyAt(result.positions[k], HeaderAt(result.positions[k]).val.framesize)

\* The k-th iteration of the scan met a complete COMM body with a known
\* encoding byte, a language code, and no terminator behind the language code.
NoTerminatorAt(k) ==
    /\ HeaderAt(result.positions[k]).err = ""
    /\ ~HeaderAt(result.positions[k]).val.is_none
    /\ HeaderAt(result.positions[k]).val.frameid = COMM
    /\ Len(BodyOf(k)) = HeaderAt(result.positions[k]).val.framesize
    /\ Len(BodyOf(k)) >= 4
    /\ BodyOf(k)[1] \in {0, 1}
    /\ Separator(BodyOf(k), BodyOf(k)[1] = 1) = -1

\* C14: a COMM body without an encoding-appropriate terminator behind the
\* language code produces no frame: read never hands back a frame whose
\* content_descr and text come from slicing with a not-found index.
C14_MalformedCommentNoFrame ==
    op = "read" =>
        \A k \in 1..Len(result.positions) : NoTerminatorAt(k) => NoFrameAt(k)

(***************************************************************************)
(* decode_tagsize on arbitrary size bytes                                  *)
(***************************************************************************)

\* Byte values handed to decode_tagsize: both ends of each half of 0..255.
ByteSamples == {0, 1, 127, 128, 255}

DecodeInit == Init

\* sizeback = ID3V2Tag.decode_tagsize(b) for four bytes b.
DecodeBytes(b) ==
    /\ sizebytes = <<>>
    /\ sizebytes' = b
    /\ sizeback' = decode_tagsize(b).val
    /\ err' = decode_tagsize(b).err
    /\ UNCHANGED <<size, tag, origin, bytestring, result, raw, declared, op>>

DecodeNext == \E b \in [1..4 -> ByteSamples] : DecodeBytes(b)

DecodeSpec == DecodeInit /\ [][DecodeNext]_vars

\* The sum of the low 7 bits of each byte, shifted left by 7 * (3 - i).
MaskedSize(b) ==
    (b[1] % 128) * Pow(2, 21) + (b[2] % 128) * Pow(2, 14)
    + (b[3] % 128) * Pow(2, 7) + (b[4] % 128)

\* C15: decode_tagsize of four bytes is the sum of their low 7 bits shifted by
\* 7 * (3 - i); a byte with bit 7 set contributes only its low 7 bits, the
\* result is below 2**28 and no error is raised.
C15_DecodeMasksBit7 ==
    sizebytes # <<>> =>
        /\ err = ""
        /\ sizeback = MaskedSize(sizebytes)
        /\ sizeback < Pow(2, 28)

\* C16: the frame scan of a read starts at offset 10, every iteration but the
\* last produces a frame and advances the offset by that frame's size + 10,
\* which is at least 10, every iteration starts below declared size + 10, and
\* there are at most declared size / 10 + 1 iterations.
C16_ScanTerminates ==
    (AfterARead /\ result.positions # <<>>) =>
        /\ result.positions[1] = 10
        /\ Len(result.frames_read) \in {Len(result.positions) - 1, Len(result.positions)}
        /\ \A k \in 1..(Len(result.positions) - 1) :
              /\ result.positions[k + 1]
                   = result.positions[k] + result.frames_read[k].size + 10
              /\ result.positions[k + 1] >= result.positions[k] + 10
        /\ \A k \in 1..Len(result.positions) : result.positions[k] < HeaderSize + 10
        /\ Len(result.positions) <= HeaderSize \div 10 + 1

\* A read whose scan ran three times: two frames, then the stop in the padding.
C16_Witness ==
    /\ op = "read"
    /\ result.outcome = "tag"
    /\ Len(result.positions) = 3
    /\ Len(result.frames_read) = 2

=============================================================================
